---- MODULE Spec2Model ----
(***************************************************************************)
(* Model of the generic worker actuator's Delete flow                      *)
(* (pkg/controller/worker/genericactuator/actuator_delete.go) and of the   *)
(* generic control plane mutator's Mutate dispatch (genericmutator).       *)
(***************************************************************************)
EXTENDS Integers, Sequences, FiniteSets, TLC

\* ------------------------------------------------------------------ bounds
NumMachines == 2
MaxMutates == 2

Machines == 1..NumMachines

\* The resource types polled by waitUntilMachineResourcesDeleted, in the
\* order the condition function lists them.
Kinds == <<"machines", "machine sets", "machine deployments", "machine classes", "machine class secrets">>
KindSet == {Kinds[i] : i \in 1..5}

VARIABLES
  pc,          \* position of the Delete call
  ops,         \* collaborator calls issued by Delete, in order (one entry per stage call)
  result,      \* the error Delete returned (cause "nil" for a nil error)
  mcmReplicas, \* replicas of the machine-controller-manager Deployment
  charts,      \* machine-controller-manager chart resources present: "seed", "shoot"
  machines,    \* store: Machines -> "absent" | "plain" | "marked" (force-deletion label)
  snap,        \* existingMachines.Items as listed by markAllMachinesForcefulDeletion
  tpc,         \* per-machine goroutine position
  tlocal,      \* per-goroutine copy of errorList read by append
  errorList,   \* the shared error slice of markAllMachinesForcefulDeletion
  updates,     \* client.Update calls issued per machine
  failedMarks, \* machines whose markMachineForcefulDeletion returned an error in this call
  store,       \* store: counts of the other machine resources, the failed machine entry
  deleting,    \* resource types for which the cascade delete was issued
  counts,      \* countMachines .. countMachineClassSecrets of the poll closure
  stopped,     \* ctx.Done() of timeoutCtx: "no" | "deadline" | "cancel"
  lastTick,    \* what the last invocation of the condition function observed
  mobj,        \* the object handed to Mutate, as Mutate left it
  mbefore,     \* the object as it was when the last Mutate call began
  mcalls,      \* the Ensurer methods and lookups the last Mutate call made, in order
  merr,        \* what the last Mutate call returned ("nil" for no error)
  mcount,      \* Mutate calls made on the object
  mcloud       \* the text EnsureKubeletCloudProviderConfig last returned ("" before)

vars == <<pc, ops, result, mcmReplicas, charts, machines, snap, tpc, tlocal, errorList,
          updates, failedMarks, store, deleting, counts, stopped, lastTick,
          mobj, mbefore, mcalls, merr, mcount, mcloud>>

deleteVars == <<pc, ops, result, mcmReplicas, charts, machines, snap, tpc, tlocal, errorList,
                updates, failedMarks, store, deleting, counts, stopped, lastTick>>
mutVars == <<mobj, mbefore, mcalls, merr, mcount, mcloud>>

fanoutVars == <<snap, tpc, tlocal, errorList, updates>>
waitVars == <<counts, stopped, lastTick>>

\* ------------------------------------------------------------------ errors
NoMachine == [name |-> "", desc |-> ""]
Err(wrap, cause) == [wrap |-> wrap, cause |-> cause, errs |-> <<>>, failed |-> NoMachine]
Nil == Err("", "nil")
Running == Err("", "running")

\* wait.ErrWaitTimeout
ErrWaitTimeout == "timed out waiting for the condition"

\* The Status.FailedMachines entries a MachineDeployment may report.
FailedNames == {"machine-a", "machine-b"}
FailedDescs == {"quota exceeded"}

\* At most one object of each of the other resource types exists in the
\* namespace (the condition function tells zero from non-zero only).
Present == 0..1

\* ------------------------------------------------------------------ objects handed to Mutate
\* An encoded payload (unit content, inline file content): nil, or a text in
\* the declared encoding that decodes (valid) to the value v; canon tells
\* whether the text is the one the codec itself would write for v.
NilText == [nil |-> TRUE, encoding |-> "", valid |-> TRUE, canon |-> TRUE, v |-> {}]
Text(encoding, valid, canon, v) ==
  [nil |-> FALSE, encoding |-> encoding, valid |-> valid, canon |-> canon, v |-> v]
EmptyText == Text("", TRUE, TRUE, {})

Unit(name, content) == [name |-> name, content |-> content]
File(path, perm, inline) == [path |-> path, perm |-> perm, inline |-> inline]

KubeletConfigPath == "/var/lib/kubelet/config/kubelet"
SysctlConfigPath == "/etc/sysctl.d/99-k8s-general.conf"
cloudProviderConfigPath == "/var/lib/kubelet/cloudprovider.conf"
B64FileCodecID == "b64"
CloudProviderConfigPerm == "0644"

Workload(kind, name) ==
  [kind |-> kind, name |-> name, spec |-> "orig", purpose |-> "", units |-> <<>>, files |-> <<>>]
OSC(purpose, units, files) ==
  [kind |-> "OperatingSystemConfig", name |-> "osc", spec |-> "orig", purpose |-> purpose,
   units |-> units, files |-> files]

ObjectKinds == {"Service", "Deployment", "StatefulSet", "ConfigMap"}
ObjectNames == {"kube-apiserver", "kube-controller-manager", "kube-scheduler",
                "etcd-main", "etcd-events", "other"}

UnitLists ==
  {<<>>, <<Unit("kubelet.service", NilText)>>, <<Unit("docker.service", Text("", TRUE, TRUE, {"base"}))>>}
  \cup {<<Unit("kubelet.service", Text("", valid, canon, {"base"}))>> :
          valid \in BOOLEAN, canon \in {FALSE}}
KubeletFiles ==
  {<<>>, <<File(KubeletConfigPath, "0644", NilText)>>,
   <<File(KubeletConfigPath, "0644", Text("b64", TRUE, FALSE, {"base"}))>>,
   <<File(KubeletConfigPath, "0644", Text("b64", FALSE, FALSE, {"base"}))>>}
SysctlFiles ==
  {<<>>, <<File(SysctlConfigPath, "0644", Text("", TRUE, TRUE, {"base"}))>>,
   <<File(SysctlConfigPath, "0644", Text("b64", FALSE, FALSE, {"base"}))>>}
CloudFiles ==
  {<<>>, <<File(cloudProviderConfigPath, "0600", Text("b64", TRUE, TRUE, {"OLD"}))>>}
FileLists == {c \o k \o y : c \in CloudFiles, k \in KubeletFiles, y \in SysctlFiles}

Objects ==
  {Workload(k, n) : k \in ObjectKinds, n \in ObjectNames}
  \cup {OSC(p, u, f) : p \in {"reconcile", "provision"}, u \in UnitLists, f \in FileLists}

\* ------------------------------------------------------------------ Init
NoTick == [seenFailed |-> NoMachine]

InitCounts == [k \in KindSet |-> -1]

Init ==
  /\ pc = "WorkerDelegate"
  /\ ops = <<>>
  /\ result = Running
  /\ mcmReplicas \in 0..1
  /\ charts \in SUBSET {"seed", "shoot"}
  /\ machines \in [Machines -> {"absent", "plain", "marked"}]
  /\ snap = [m \in Machines |-> "absent"]
  /\ tpc = [m \in Machines |-> "idle"]
  /\ tlocal = [m \in Machines |-> <<>>]
  /\ errorList = <<>>
  /\ updates = [m \in Machines |-> 0]
  /\ failedMarks = {}
  /\ store = [sets |-> 1, deployments |-> 1, classes |-> 1,
              secretsFin |-> 1, secretsNoFin |-> 0, failed |-> NoMachine]
  /\ deleting = {}
  /\ counts = InitCounts
  /\ stopped = "no"
  /\ lastTick = NoTick
  /\ mobj = Workload("ConfigMap", "other")
  /\ mbefore = mobj
  /\ mcalls = <<>>
  /\ merr = "none"
  /\ mcount = 0
  /\ mcloud = ""

\* ------------------------------------------------------------------ Delete, stages 1-3
Return(e) == /\ pc' = "done"
             /\ result' = e

\* Mutant: a failing factory is asked a second time before Delete gives up.
WorkerDelegate_again ==
  /\ pc = "WorkerDelegate"
  /\ \E ok \in BOOLEAN :
       IF ok THEN pc' = "GetDeployment" /\ result' = result
                  /\ ops' = Append(ops, "WorkerDelegate")
       ELSE Return(Err("could not instantiate actuator context", "factory error"))
            /\ ops' = ops \o <<"WorkerDelegate", "WorkerDelegate">>
  /\ UNCHANGED <<mcmReplicas, charts, machines, failedMarks, store, deleting>>
  /\ UNCHANGED fanoutVars /\ UNCHANGED waitVars
  /\ UNCHANGED mutVars

\* a.delegateFactory.WorkerDelegate
WorkerDelegate ==
  /\ pc = "WorkerDelegate"
  /\ ops' = Append(ops, "WorkerDelegate")
  /\ \E ok \in BOOLEAN :
       IF ok THEN pc' = "GetDeployment" /\ result' = result
       ELSE Return(Err("could not instantiate actuator context", "factory error"))
  /\ UNCHANGED <<mcmReplicas, charts, machines, failedMarks, store, deleting>>
  /\ UNCHANGED fanoutVars /\ UNCHANGED waitVars
  /\ UNCHANGED mutVars

\* The machine-controller-manager Deployment is one of the resources the seed
\* chart installs.
DeploymentExists == "seed" \in charts

\* a.client.Get(ctx, kutil.Key(worker.Namespace, a.mcmName), deployment)
GetDeployment ==
  /\ pc = "GetDeployment"
  /\ ops' = Append(ops, "GetDeployment")
  /\ \E ok \in BOOLEAN :
       IF ~DeploymentExists THEN Return(Err("", "deployment not found"))
       ELSE IF ok THEN pc' = "ScaleDeployment" /\ result' = result
       ELSE Return(Err("", "get deployment error"))
  /\ UNCHANGED <<mcmReplicas, charts, machines, failedMarks, store, deleting>>
  /\ UNCHANGED fanoutVars /\ UNCHANGED waitVars
  /\ UNCHANGED mutVars

\* util.ScaleDeployment(ctx, a.client, deployment, 1)
ScaleDeployment ==
  /\ pc = "ScaleDeployment"
  /\ ops' = Append(ops, "ScaleDeployment")
  /\ \E ok \in BOOLEAN :
       IF ok THEN pc' = "applyMachineControllerManagerShootChart" /\ result' = result
                  /\ mcmReplicas' = 1
       ELSE Return(Err("", "scale deployment error")) /\ mcmReplicas' = mcmReplicas
  /\ UNCHANGED <<charts, machines, failedMarks, store, deleting>>
  /\ UNCHANGED fanoutVars /\ UNCHANGED waitVars
  /\ UNCHANGED mutVars

\* a.applyMachineControllerManagerShootChart
applyMachineControllerManagerShootChart ==
  /\ pc = "applyMachineControllerManagerShootChart"
  /\ ops' = Append(ops, "applyMachineControllerManagerShootChart")
  /\ \E ok \in BOOLEAN :
       IF ok THEN pc' = "markAllMachinesForcefulDeletion" /\ result' = result
                  /\ charts' = charts \cup {"shoot"}
       ELSE Return(Err("could not apply machine-controller-manager shoot chart", "chart error"))
            /\ charts' = charts
  /\ UNCHANGED <<mcmReplicas, machines, failedMarks, store, deleting>>
  /\ UNCHANGED fanoutVars /\ UNCHANGED waitVars
  /\ UNCHANGED mutVars

\* ------------------------------------------------------------------ stage 4: fan-out
\* markMachineForcefulDeletion on a machine object whose label is `label`;
\* updateOk is the outcome of a.client.Update should it be called.
\* calls: Update calls issued; obj: the label of the object afterwards;
\* stored: whether the store now holds the labelled object.
\* Mutant: the check for an existing label is missing.
markMachineForcefulDeletion_noCheck(label, updateOk) ==
  [calls |-> 1, obj |-> "marked", err |-> ~updateOk, stored |-> updateOk]

markMachineForcefulDeletion(label, updateOk) ==
  IF label = "marked"
  THEN [calls |-> 0, obj |-> label, err |-> FALSE, stored |-> FALSE]
  ELSE [calls |-> 1, obj |-> "marked", err |-> ~updateOk, stored |-> updateOk]

\* markAllMachinesForcefulDeletion: a.client.List of the machines, then one
\* goroutine per listed machine.
ListMachines ==
  /\ pc = "markAllMachinesForcefulDeletion"
  /\ ops' = Append(ops, "ListMachines")
  /\ \E ok \in BOOLEAN :
       IF ok
       THEN /\ pc' = "fanout" /\ result' = result
            /\ snap' = machines
            /\ tpc' = [m \in Machines |-> IF machines[m] = "absent" THEN "idle" ELSE "mark"]
       ELSE /\ Return(Err("marking all machines for forceful deletion failed", "list machines error"))
            /\ UNCHANGED <<snap, tpc>>
  /\ errorList' = <<>>
  /\ tlocal' = [m \in Machines |-> <<>>]
  /\ updates' = [m \in Machines |-> 0]
  /\ UNCHANGED <<mcmReplicas, charts, machines, failedMarks, store, deleting>>
  /\ UNCHANGED waitVars
  /\ UNCHANGED mutVars

\* go func(m) { ... a.markMachineForcefulDeletion(ctx, &m) ... }
TaskMark(m) ==
  /\ pc = "fanout" /\ tpc[m] = "mark"
  /\ \E updateOk \in BOOLEAN :
       LET r == markMachineForcefulDeletion(snap[m], updateOk) IN
         /\ updates' = [updates EXCEPT ![m] = @ + r.calls]
         /\ machines' = IF r.stored THEN [machines EXCEPT ![m] = r.obj] ELSE machines
         /\ tpc' = [tpc EXCEPT ![m] = IF r.err THEN "append" ELSE "done"]
         /\ failedMarks' = IF r.err THEN failedMarks \cup {m} ELSE failedMarks
  /\ UNCHANGED <<pc, ops, result, mcmReplicas, charts, snap, tlocal, errorList, store, deleting>>
  /\ UNCHANGED waitVars
  /\ UNCHANGED mutVars

\* errorList = append(errorList, err): the read of the shared slice ...
TaskAppendRead(m) ==
  /\ pc = "fanout" /\ tpc[m] = "append"
  /\ tlocal' = [tlocal EXCEPT ![m] = errorList]
  /\ tpc' = [tpc EXCEPT ![m] = "assign"]
  /\ UNCHANGED <<pc, ops, result, mcmReplicas, charts, machines, snap, errorList, updates, failedMarks, store, deleting>>
  /\ UNCHANGED waitVars
  /\ UNCHANGED mutVars

\* ... and the write back of the appended slice; no lock is held in between.
TaskAppendWrite(m) ==
  /\ pc = "fanout" /\ tpc[m] = "assign"
  /\ errorList' = Append(tlocal[m], m)
  /\ tpc' = [tpc EXCEPT ![m] = "done"]
  /\ UNCHANGED <<pc, ops, result, mcmReplicas, charts, machines, snap, tlocal, updates, failedMarks, store, deleting>>
  /\ UNCHANGED waitVars
  /\ UNCHANGED mutVars

\* The error markAllMachinesForcefulDeletion returns for a non-empty errorList.
LabellingError(list) ==
  [Err("marking all machines for forceful deletion failed",
       "labelling machines (to become forcefully deleted) failed") EXCEPT !.errs = list]

\* Mutant: the collected errors are ignored.
Join_ignoreErrors ==
  /\ pc = "fanout"
  /\ \A m \in Machines : tpc[m] \in {"idle", "done"}
  /\ pc' = "ListMachineDeployments" /\ result' = result
  /\ UNCHANGED <<ops, mcmReplicas, charts, machines, failedMarks, store, deleting>>
  /\ UNCHANGED fanoutVars /\ UNCHANGED waitVars
  /\ UNCHANGED mutVars

\* Mutant: the function returns without wg.Wait().
Join_noWait ==
  /\ pc = "fanout"
  /\ IF Len(errorList) > 0
     THEN Return(LabellingError(errorList))
     ELSE pc' = "ListMachineDeployments" /\ result' = result
  /\ UNCHANGED <<ops, mcmReplicas, charts, machines, failedMarks, store, deleting>>
  /\ UNCHANGED fanoutVars /\ UNCHANGED waitVars
  /\ UNCHANGED mutVars

\* wg.Wait() and the return of markAllMachinesForcefulDeletion to Delete.
Join ==
  /\ pc = "fanout"
  /\ \A m \in Machines : tpc[m] \in {"idle", "done"}
  /\ IF Len(errorList) > 0
     THEN Return(LabellingError(errorList))
     ELSE pc' = "ListMachineDeployments" /\ result' = result
  /\ UNCHANGED <<ops, mcmReplicas, charts, machines, failedMarks, store, deleting>>
  /\ UNCHANGED fanoutVars /\ UNCHANGED waitVars
  /\ UNCHANGED mutVars

\* ------------------------------------------------------------------ stage 5: cascade delete
\* (the locals of markAllMachinesForcefulDeletion are gone by now)
ListMachineDeployments ==
  /\ pc = "ListMachineDeployments"
  /\ ops' = Append(ops, "ListMachineDeployments")
  /\ \E ok \in BOOLEAN :
       IF ok THEN pc' = "cleanupMachineDeployments" /\ result' = result
       ELSE Return(Err("", "list machine deployments error"))
  /\ snap' = [m \in Machines |-> "absent"]
  /\ tpc' = [m \in Machines |-> "idle"]
  /\ updates' = [m \in Machines |-> 0]
  /\ UNCHANGED <<mcmReplicas, charts, machines, failedMarks, store, deleting, tlocal, errorList>>
  /\ UNCHANGED waitVars
  /\ UNCHANGED mutVars

\* One cascade stage: the cleanup call issues the deletes of `kind`.
Cleanup(at, kind, wrap, next) ==
  /\ pc = at
  /\ ops' = Append(ops, at)
  /\ \E ok \in BOOLEAN :
       IF ok THEN pc' = next /\ result' = result /\ deleting' = deleting \cup {kind}
       ELSE Return(Err(wrap, "delete error")) /\ deleting' = deleting
  /\ UNCHANGED <<mcmReplicas, charts, machines, failedMarks, store>>
  /\ UNCHANGED fanoutVars /\ UNCHANGED waitVars
  /\ UNCHANGED mutVars

\* Mutant: the machine class secrets are cleaned up before the machine classes.
cleanupMachineDeployments_reordered ==
  Cleanup("cleanupMachineDeployments", "machine deployments",
          "cleaning up machine deployments failed", "cleanupMachineClassSecrets")

cleanupMachineDeployments ==
  Cleanup("cleanupMachineDeployments", "machine deployments",
          "cleaning up machine deployments failed", "cleanupMachineClasses")

\* Mutant: the error of the machine class stage carries the text of the next stage.
cleanupMachineClasses_misnamed ==
  Cleanup("cleanupMachineClasses", "machine classes",
          "cleaning up machine class secrets failed", "cleanupMachineClassSecrets")

cleanupMachineClasses ==
  Cleanup("cleanupMachineClasses", "machine classes",
          "cleaning up machine classes failed", "cleanupMachineClassSecrets")

cleanupMachineClassSecrets ==
  Cleanup("cleanupMachineClassSecrets", "machine class secrets",
          "cleaning up machine class secrets failed", "waitUntilMachineResourcesDeleted")

\* ------------------------------------------------------------------ stage 6: convergence wait
\* What the List calls of one invocation of the condition function return.
StoreView ==
  [machines |-> Cardinality({m \in Machines : machines[m] # "absent"}),
   sets |-> store.sets, deployments |-> store.deployments, classes |-> store.classes,
   secretsFin |-> store.secretsFin, secretsNoFin |-> store.secretsNoFin,
   failed |-> store.failed]

\* Mutant: every resource type is listed on every tick.
ListStep_always(r, kind, n, fail) ==
  IF r.err # "" THEN r
  ELSE IF fail THEN [r EXCEPT !.err = "list error"]
  ELSE [r EXCEPT !.counts[kind] = n, !.msg = Append(@, <<kind, n>>),
                 !.listed = @ \cup {kind}]

\* if count != 0 { List; count = len(items); msg += "<count> <kind>, " }
ListStep(r, kind, n, fail) ==
  IF r.err # "" \/ r.counts[kind] = 0 THEN r
  ELSE IF fail THEN [r EXCEPT !.err = "list error"]
  ELSE [r EXCEPT !.counts[kind] = n, !.msg = Append(@, <<kind, n>>),
                 !.listed = @ \cup {kind}]

\* Mutant: failed machines are looked at only once no machine deployment is left.
CheckFailedMachines_late(r, st) ==
  IF r.err = "" /\ "machine deployments" \in r.listed /\ st.deployments = 0
     /\ st.failed # NoMachine
  THEN [r EXCEPT !.err = "Machine failed", !.failed = st.failed]
  ELSE r

\* for each listed MachineDeployment, for each of its Status.FailedMachines: return the error
CheckFailedMachines(r, st) ==
  IF r.err = "" /\ "machine deployments" \in r.listed /\ st.deployments > 0
     /\ st.failed # NoMachine
  THEN [r EXCEPT !.err = "Machine failed", !.failed = st.failed]
  ELSE r

\* Mutant: every listed machine class secret is counted.
CountSecrets_all(st) == st.secretsFin + st.secretsNoFin

\* The number of listed machine class secrets that carry a finalizer.
CountSecrets(st) == st.secretsFin

\* Mutant: the machine class secrets are left out of the final test.
AllZero_noSecrets(c) == \A k \in KindSet \ {"machine class secrets"} : c[k] = 0

AllZero(c) == \A k \in KindSet : c[k] = 0

\* One invocation of the condition function handed to wait.PollUntil, on the
\* closure's counts c and the store st; failAt names the call that fails
\* (1..5 the List of that resource type, 6 meta.ExtractList, 0 none).
PollCondition(c, st, failAt) ==
  LET r0 == [counts |-> c, msg |-> <<>>, err |-> "", failed |-> NoMachine, listed |-> {}]
      r1 == ListStep(r0, "machines", st.machines, failAt = 1)
      r2 == ListStep(r1, "machine sets", st.sets, failAt = 2)
      r3 == CheckFailedMachines(
              ListStep(r2, "machine deployments", st.deployments, failAt = 3), st)
      r4 == ListStep(r3, "machine classes", st.classes, failAt \in {4, 6})
      r5 == ListStep(r4, "machine class secrets", CountSecrets(st), failAt = 5)
  IN [counts |-> r5.counts, msg |-> r5.msg, err |-> r5.err, failed |-> r5.failed,
      listed |-> r5.listed,
      done |-> r5.err = "" /\ AllZero(r5.counts),
      logged |-> r5.err = "" /\ ~AllZero(r5.counts)]

\* The error Delete returns when the wait returned err.
WaitError(cause, failed) ==
  [Err("Failed while waiting for all machine resources to be deleted", cause)
     EXCEPT !.failed = failed]

\* Delete enters waitUntilMachineResourcesDeleted with timeoutCtx.
waitUntilMachineResourcesDeleted ==
  /\ pc = "waitUntilMachineResourcesDeleted"
  /\ pc' = "poll"
  /\ ops' = Append(ops, "waitUntilMachineResourcesDeleted")
  /\ counts' = InitCounts
  /\ lastTick' = NoTick
  /\ UNCHANGED <<result, mcmReplicas, charts, machines, failedMarks, store, deleting, stopped>>
  /\ UNCHANGED fanoutVars
  /\ UNCHANGED mutVars

\* PollUntil wakes up on a tick and calls the condition function. When the
\* stop channel is closed the call is the last one. The closure's counts
\* die with an error return of the wait.
Tick ==
  /\ pc = "poll"
  /\ \E failAt \in 0..6 :
       LET st == StoreView
           r == PollCondition(counts, st, failAt)
       IN /\ lastTick' = [seenFailed |-> IF "machine deployments" \in r.listed
                                         THEN st.failed ELSE NoMachine]
          /\ IF r.err # ""
             THEN Return(WaitError(r.err, r.failed)) /\ counts' = InitCounts
             ELSE IF r.done
             THEN pc' = "NewClientsForShoot" /\ result' = result /\ counts' = r.counts
             ELSE IF stopped # "no"
             THEN Return(WaitError(ErrWaitTimeout, NoMachine)) /\ counts' = InitCounts
             ELSE pc' = pc /\ result' = result /\ counts' = r.counts
  /\ UNCHANGED <<ops, mcmReplicas, charts, machines, failedMarks, store, deleting, stopped>>
  /\ UNCHANGED fanoutVars
  /\ UNCHANGED mutVars

\* Mutant: a closed stop channel ends the wait without an error.
PollStop_nil ==
  /\ pc = "poll" /\ stopped # "no"
  /\ pc' = "NewClientsForShoot" /\ result' = result
  /\ UNCHANGED <<ops, mcmReplicas, charts, machines, failedMarks, store, deleting>>
  /\ UNCHANGED fanoutVars /\ UNCHANGED waitVars
  /\ UNCHANGED mutVars

\* PollUntil wakes up on the closed stop channel: wait.ErrWaitTimeout.
PollStop ==
  /\ pc = "poll" /\ stopped # "no"
  /\ Return(WaitError(ErrWaitTimeout, NoMachine))
  /\ counts' = InitCounts
  /\ UNCHANGED <<ops, mcmReplicas, charts, machines, failedMarks, store, deleting, stopped, lastTick>>
  /\ UNCHANGED fanoutVars
  /\ UNCHANGED mutVars

\* Mutant: the context of the wait carries no deadline.
Deadline_never ==
  /\ pc = "poll" /\ stopped = "no"
  /\ stopped' = "no"
  /\ UNCHANGED <<pc, ops, result, mcmReplicas, charts, machines, failedMarks, store, deleting,
                 counts, lastTick>>
  /\ UNCHANGED fanoutVars
  /\ UNCHANGED mutVars

\* The 30 minutes of context.WithTimeout elapse.
Deadline ==
  /\ pc = "poll" /\ stopped = "no"
  /\ stopped' = "deadline"
  /\ UNCHANGED <<pc, ops, result, mcmReplicas, charts, machines, failedMarks, store, deleting,
                 counts, lastTick>>
  /\ UNCHANGED fanoutVars
  /\ UNCHANGED mutVars

\* The caller cancels the context of the Delete call.
Cancel ==
  /\ pc = "poll" /\ stopped = "no"
  /\ stopped' = "cancel"
  /\ UNCHANGED <<pc, ops, result, mcmReplicas, charts, machines, failedMarks, store, deleting,
                 counts, lastTick>>
  /\ UNCHANGED fanoutVars
  /\ UNCHANGED mutVars

\* ------------------------------------------------------------------ the external controller
ExtUnchanged ==
  /\ UNCHANGED <<pc, ops, result, mcmReplicas, charts, failedMarks, deleting>>
  /\ UNCHANGED fanoutVars /\ UNCHANGED waitVars
  /\ UNCHANGED mutVars

ExtRemoveMachine(m) ==
  /\ pc = "poll" /\ machines[m] # "absent"
  /\ machines' = [machines EXCEPT ![m] = "absent"]
  /\ UNCHANGED store /\ ExtUnchanged

ExtCreateMachine(m) ==
  /\ pc = "poll" /\ machines[m] = "absent"
  /\ machines' = [machines EXCEPT ![m] = "plain"]
  /\ UNCHANGED store /\ ExtUnchanged

ResourceFields == {"sets", "deployments", "classes", "secretsFin", "secretsNoFin"}

ExtRemove(f) ==
  /\ pc = "poll" /\ store[f] > 0
  /\ store' = [store EXCEPT ![f] = @ - 1,
                            !.failed = IF f = "deployments" /\ store[f] = 1
                                       THEN NoMachine ELSE @]
  /\ UNCHANGED machines /\ ExtUnchanged

ExtCreate(f) ==
  /\ pc = "poll" /\ store[f] + 1 \in Present
  /\ store' = [store EXCEPT ![f] = @ + 1]
  /\ UNCHANGED machines /\ ExtUnchanged

\* The finalizer of a machine class secret is removed; the secret stays.
ExtReleaseSecret ==
  /\ pc = "poll" /\ store.secretsFin > 0 /\ store.secretsNoFin + 1 \in Present
  /\ store' = [store EXCEPT !.secretsFin = @ - 1, !.secretsNoFin = @ + 1]
  /\ UNCHANGED machines /\ ExtUnchanged

\* A MachineDeployment reports a machine in Status.FailedMachines.
ExtMachineFailed ==
  /\ pc = "poll" /\ store.deployments > 0 /\ store.failed = NoMachine
  /\ \E n \in FailedNames, d \in FailedDescs :
       store' = [store EXCEPT !.failed = [name |-> n, desc |-> d]]
  /\ UNCHANGED machines /\ ExtUnchanged

\* ------------------------------------------------------------------ stage 7: remove the controller
NewClientsForShoot ==
  /\ pc = "NewClientsForShoot"
  /\ ops' = Append(ops, "NewClientsForShoot")
  /\ \E ok \in BOOLEAN :
       IF ok THEN pc' = "mcmShootChartDelete" /\ result' = result
       ELSE Return(Err("could not create shoot client for cleanup of machine-controller-manager resources",
                       "client error"))
  /\ UNCHANGED <<mcmReplicas, charts, machines, failedMarks, store, deleting>>
  /\ UNCHANGED fanoutVars /\ UNCHANGED waitVars
  /\ UNCHANGED mutVars

\* Mutant: an error of the shoot chart delete is dropped and the seed chart
\* delete follows.
mcmShootChartDelete_continue ==
  /\ pc = "mcmShootChartDelete"
  /\ ops' = Append(ops, "mcmShootChartDelete")
  /\ \E ok \in BOOLEAN :
       /\ pc' = "mcmSeedChartDelete" /\ result' = result
       /\ charts' = IF ok THEN charts \ {"shoot"} ELSE charts
  /\ UNCHANGED <<mcmReplicas, machines, failedMarks, store, deleting>>
  /\ UNCHANGED fanoutVars /\ UNCHANGED waitVars
  /\ UNCHANGED mutVars

mcmShootChartDelete ==
  /\ pc = "mcmShootChartDelete"
  /\ ops' = Append(ops, "mcmShootChartDelete")
  /\ \E ok \in BOOLEAN :
       IF ok THEN pc' = "mcmSeedChartDelete" /\ result' = result
                  /\ charts' = charts \ {"shoot"}
       ELSE Return(Err("cleaning up machine-controller-manager resources in shoot failed",
                       "chart error"))
            /\ charts' = charts
  /\ UNCHANGED <<mcmReplicas, machines, failedMarks, store, deleting>>
  /\ UNCHANGED fanoutVars /\ UNCHANGED waitVars
  /\ UNCHANGED mutVars

\* A chart delete that fails has removed none or some of the chart's
\* resources, the Deployment possibly among them.
mcmSeedChartDelete ==
  /\ pc = "mcmSeedChartDelete"
  /\ ops' = Append(ops, "mcmSeedChartDelete")
  /\ \E ok \in BOOLEAN :
       IF ok THEN Return(Nil) /\ charts' = charts \ {"seed"}
       ELSE Return(Err("cleaning up machine-controller-manager resources in seed failed",
                       "chart error"))
            /\ \E left \in {charts, charts \ {"seed"}} : charts' = left
  /\ UNCHANGED <<mcmReplicas, machines, failedMarks, store, deleting>>
  /\ UNCHANGED fanoutVars /\ UNCHANGED waitVars
  /\ UNCHANGED mutVars

\* ------------------------------------------------------------------ Mutate
\* The call of a Mutate invocation that fails, if any.
FailPoints == {"none", "hook", "GetCluster", "EnsureKubeletServiceUnitOptions", "Serialize",
               "EnsureKubeletConfiguration", "kubeletConfigCodec.Encode",
               "EnsureKubernetesGeneralConfiguration", "fciCodec.Encode",
               "EnsureKubeletCloudProviderConfig", "cloud fciCodec.Encode"}
CloudTexts == {"CONFIG", "CONFIG-2"}
MutateInputs == [fail : FailPoints, should : BOOLEAN, cloudText : CloudTexts]

\* What the provider's hooks add to a decoded payload.
Ensured(v) == v \cup {"provider"}

\* controlplane.UnitWithName / controlplane.FileWithPath: the index of the
\* first entry of that name (0 when there is none).
IndexOf(items, field, value) ==
  IF \E i \in 1..Len(items) : items[i][field] = value
  THEN CHOOSE i \in 1..Len(items) :
         items[i][field] = value /\ \A j \in 1..(i - 1) : items[j][field] # value
  ELSE 0

\* controlplane.EnsureFileWithPath: replace the entry of that path in place,
\* or append the file.
EnsureFileWithPath(items, item) ==
  LET i == IndexOf(items, "path", item.path) IN
    IF i = 0 THEN Append(items, item) ELSE [items EXCEPT ![i] = item]

Step(obj, calls, err) == [obj |-> obj, calls |-> calls, err |-> err]

\* A switch case that matches no name: nothing is called.
NoOp(obj) == Step(obj, <<>>, "nil")

\* One of the Ensure* methods for a Service, Deployment or StatefulSet.
EnsureWorkload(method, obj, calls, in) ==
  IF in.fail = "hook" THEN Step(obj, Append(calls, method), "hook error")
  ELSE Step([obj EXCEPT !.spec = "ensured"], Append(calls, method), "nil")

\* Mutant: the serialized options are added as a further kubelet.service unit
\* instead of being written through the content pointer.
ensureKubeletServiceUnitContent_append(r, i, in) ==
  LET content == r.obj.units[i].content
      called == Append(r.calls, "EnsureKubeletServiceUnitOptions")
  IN IF ~content.valid
     THEN Step(r.obj, r.calls, "could not deserialize kubelet.service unit content")
     ELSE IF in.fail = "EnsureKubeletServiceUnitOptions"
     THEN Step(r.obj, called, "hook error")
     ELSE IF in.fail = "Serialize"
     THEN Step([r.obj EXCEPT !.units[i].content = EmptyText], called,
               "could not serialize kubelet.service unit options")
     ELSE Step([r.obj EXCEPT !.units =
                  Append(@, Unit("kubelet.service", Text("", TRUE, TRUE, Ensured(content.v))))],
               called, "nil")

ensureKubeletServiceUnitContent(r, i, in) ==
  LET content == r.obj.units[i].content
      called == Append(r.calls, "EnsureKubeletServiceUnitOptions")
  IN IF ~content.valid
     THEN Step(r.obj, r.calls, "could not deserialize kubelet.service unit content")
     ELSE IF in.fail = "EnsureKubeletServiceUnitOptions"
     THEN Step(r.obj, called, "hook error")
     ELSE IF in.fail = "Serialize"
     THEN Step([r.obj EXCEPT !.units[i].content = EmptyText], called,
               "could not serialize kubelet.service unit options")
     ELSE Step([r.obj EXCEPT !.units[i].content = Text("", TRUE, TRUE, Ensured(content.v))],
               called, "nil")

\* ensureKubeletConfigFileContent and ensureKubernetesGeneralConfiguration:
\* decode, hook, encode with the declared encoding, overwrite.
ensureFileContent(r, i, method, encode, what, in) ==
  LET fci == r.obj.files[i].inline
      called == Append(r.calls, method)
  IN IF ~fci.valid THEN Step(r.obj, r.calls, "could not decode " \o what)
     ELSE IF in.fail = method THEN Step(r.obj, called, "hook error")
     ELSE IF in.fail = encode THEN Step(r.obj, called, "could not encode " \o what)
     ELSE Step([r.obj EXCEPT !.files[i].inline = Text(fci.encoding, TRUE, TRUE, Ensured(fci.v))],
               called, "nil")

\* Mutant: the file is appended to osc.Spec.Files without looking for its path.
ensureKubeletCloudProviderConfig_append(r, in) ==
  LET called == Append(r.calls, "EnsureKubeletCloudProviderConfig")
  IN IF in.fail = "EnsureKubeletCloudProviderConfig" THEN Step(r.obj, called, "hook error")
     ELSE IF in.fail = "cloud fciCodec.Encode"
     THEN Step(r.obj, called, "could not encode kubelet cloud provider config")
     ELSE Step([r.obj EXCEPT !.files =
                  Append(@, File(cloudProviderConfigPath, CloudProviderConfigPerm,
                                 Text(B64FileCodecID, TRUE, TRUE, {in.cloudText})))],
               called, "nil")

ensureKubeletCloudProviderConfig(r, in) ==
  LET called == Append(r.calls, "EnsureKubeletCloudProviderConfig")
  IN IF in.fail = "EnsureKubeletCloudProviderConfig" THEN Step(r.obj, called, "hook error")
     ELSE IF in.fail = "cloud fciCodec.Encode"
     THEN Step(r.obj, called, "could not encode kubelet cloud provider config")
     ELSE Step([r.obj EXCEPT !.files =
                  EnsureFileWithPath(@, File(cloudProviderConfigPath, CloudProviderConfigPerm,
                                             Text(B64FileCodecID, TRUE, TRUE, {in.cloudText})))],
               called, "nil")

mutateOperatingSystemConfig(osc, in) ==
  LET r0 == Step(osc, <<>>, "nil")
      u == IndexOf(r0.obj.units, "name", "kubelet.service")
      r1 == IF u # 0 /\ ~r0.obj.units[u].content.nil
            THEN ensureKubeletServiceUnitContent(r0, u, in) ELSE r0
      k == IndexOf(r1.obj.files, "path", KubeletConfigPath)
      r2 == IF r1.err = "nil" /\ k # 0 /\ ~r1.obj.files[k].inline.nil
            THEN ensureFileContent(r1, k, "EnsureKubeletConfiguration",
                                   "kubeletConfigCodec.Encode", "kubelet configuration", in)
            ELSE r1
      y == IndexOf(r2.obj.files, "path", SysctlConfigPath)
      r3 == IF r2.err = "nil" /\ y # 0 /\ ~r2.obj.files[y].inline.nil
            THEN ensureFileContent(r2, y, "EnsureKubernetesGeneralConfiguration",
                                   "fciCodec.Encode", "kubernetes general configuration", in)
            ELSE r2
      r4 == IF r3.err = "nil"
            THEN Step(r3.obj, Append(r3.calls, "ShouldProvisionKubeletCloudProviderConfig"), "nil")
            ELSE r3
  IN IF r4.err = "nil" /\ in.should THEN ensureKubeletCloudProviderConfig(r4, in) ELSE r4

\* Mutant: a Deployment of any other name is handed to the kube-scheduler hook.
MutateObject_defaultCase(obj, in) ==
  IF obj.kind = "Deployment"
  THEN EnsureWorkload("EnsureKubeSchedulerDeployment", obj, <<>>, in)
  ELSE NoOp(obj)

\* Mutant: the purpose of an OperatingSystemConfig is not looked at.
MutateObject_anyPurpose(obj, in) ==
  IF obj.kind = "OperatingSystemConfig" THEN mutateOperatingSystemConfig(obj, in)
  ELSE MutateObject_defaultCase(obj, in)

\* Mutant: the hook for the etcd StatefulSet runs before the cluster lookup.
MutateObject_hookFirst(obj, in) ==
  CASE obj.kind = "Service" ->
         IF obj.name = "kube-apiserver"
         THEN EnsureWorkload("EnsureKubeAPIServerService", obj, <<>>, in)
         ELSE NoOp(obj)
    [] obj.kind = "Deployment" ->
         CASE obj.name = "kube-apiserver" ->
                EnsureWorkload("EnsureKubeAPIServerDeployment", obj, <<>>, in)
           [] obj.name = "kube-controller-manager" ->
                EnsureWorkload("EnsureKubeControllerManagerDeployment", obj, <<>>, in)
           [] obj.name = "kube-scheduler" ->
                EnsureWorkload("EnsureKubeSchedulerDeployment", obj, <<>>, in)
           [] OTHER -> NoOp(obj)
    [] obj.kind = "StatefulSet" ->
         IF obj.name \in {"etcd-main", "etcd-events"}
         THEN LET r == EnsureWorkload("EnsureETCDStatefulSet", obj, <<>>, in) IN
                IF r.err # "nil" THEN r
                ELSE IF in.fail = "GetCluster"
                THEN Step(r.obj, Append(r.calls, "GetCluster"),
                          "could not get cluster for namespace")
                ELSE Step(r.obj, Append(r.calls, "GetCluster"), "nil")
         ELSE NoOp(obj)
    [] obj.kind = "OperatingSystemConfig" ->
         IF obj.purpose = "reconcile" THEN mutateOperatingSystemConfig(obj, in) ELSE NoOp(obj)
    [] OTHER -> NoOp(obj)

\* Mutant: the kube-controller-manager Deployment is handed to the kube-scheduler hook.
MutateObject_swapped(obj, in) ==
  CASE obj.kind = "Service" ->
         IF obj.name = "kube-apiserver"
         THEN EnsureWorkload("EnsureKubeAPIServerService", obj, <<>>, in)
         ELSE NoOp(obj)
    [] obj.kind = "Deployment" ->
         CASE obj.name = "kube-apiserver" ->
                EnsureWorkload("EnsureKubeAPIServerDeployment", obj, <<>>, in)
           [] obj.name = "kube-controller-manager" ->
                EnsureWorkload("EnsureKubeSchedulerDeployment", obj, <<>>, in)
           [] obj.name = "kube-scheduler" ->
                EnsureWorkload("EnsureKubeSchedulerDeployment", obj, <<>>, in)
           [] OTHER -> NoOp(obj)
    [] obj.kind = "StatefulSet" ->
         IF obj.name \in {"etcd-main", "etcd-events"}
         THEN IF in.fail = "GetCluster"
              THEN Step(obj, <<"GetCluster">>, "could not get cluster for namespace")
              ELSE EnsureWorkload("EnsureETCDStatefulSet", obj, <<"GetCluster">>, in)
         ELSE NoOp(obj)
    [] obj.kind = "OperatingSystemConfig" ->
         IF obj.purpose = "reconcile" THEN mutateOperatingSystemConfig(obj, in) ELSE NoOp(obj)
    [] OTHER -> NoOp(obj)

\* mutator.Mutate: the type switch and the switches on the name.
MutateObject(obj, in) ==
  CASE obj.kind = "Service" ->
         IF obj.name = "kube-apiserver"
         THEN EnsureWorkload("EnsureKubeAPIServerService", obj, <<>>, in)
         ELSE NoOp(obj)
    [] obj.kind = "Deployment" ->
         CASE obj.name = "kube-apiserver" ->
                EnsureWorkload("EnsureKubeAPIServerDeployment", obj, <<>>, in)
           [] obj.name = "kube-controller-manager" ->
                EnsureWorkload("EnsureKubeControllerManagerDeployment", obj, <<>>, in)
           [] obj.name = "kube-scheduler" ->
                EnsureWorkload("EnsureKubeSchedulerDeployment", obj, <<>>, in)
           [] OTHER -> NoOp(obj)
    [] obj.kind = "StatefulSet" ->
         IF obj.name \in {"etcd-main", "etcd-events"}
         THEN IF in.fail = "GetCluster"
              THEN Step(obj, <<"GetCluster">>, "could not get cluster for namespace")
              ELSE EnsureWorkload("EnsureETCDStatefulSet", obj, <<"GetCluster">>, in)
         ELSE NoOp(obj)
    [] obj.kind = "OperatingSystemConfig" ->
         IF obj.purpose = "reconcile" THEN mutateOperatingSystemConfig(obj, in) ELSE NoOp(obj)
    [] OTHER -> NoOp(obj)

\* One Mutate call on the object.
Mutate ==
  /\ mcount < MaxMutates
  /\ \E in \in MutateInputs :
       LET r == MutateObject(mobj, in) IN
         /\ mbefore' = mobj
         /\ mobj' = r.obj
         /\ mcalls' = r.calls
         /\ merr' = r.err
         /\ mcloud' = IF "EnsureKubeletCloudProviderConfig" \in {r.calls[j] : j \in 1..Len(r.calls)}
                          /\ in.fail # "EnsureKubeletCloudProviderConfig"
                       THEN in.cloudText ELSE mcloud
  /\ mcount' = mcount + 1
  /\ UNCHANGED deleteVars

Next ==
  \/ WorkerDelegate \/ GetDeployment \/ ScaleDeployment
  \/ applyMachineControllerManagerShootChart
  \/ ListMachines
  \/ \E m \in Machines : TaskMark(m)
  \/ \E m \in Machines : TaskAppendRead(m)
  \/ \E m \in Machines : TaskAppendWrite(m)
  \/ Join
  \/ ListMachineDeployments
  \/ cleanupMachineDeployments \/ cleanupMachineClasses \/ cleanupMachineClassSecrets
  \/ waitUntilMachineResourcesDeleted
  \/ Tick \/ PollStop \/ Deadline \/ Cancel
  \/ \E m \in Machines : ExtRemoveMachine(m)
  \/ \E m \in Machines : ExtCreateMachine(m)
  \/ \E f \in ResourceFields : ExtRemove(f)
  \/ \E f \in ResourceFields : ExtCreate(f)
  \/ ExtReleaseSecret \/ ExtMachineFailed
  \/ NewClientsForShoot \/ mcmShootChartDelete \/ mcmSeedChartDelete

Spec == Init /\ [][Next]_vars

\* The steps of the Delete call outside the wait: each collaborator call
\* returns and each goroutine runs on.
DeleteStep ==
  \/ WorkerDelegate \/ GetDeployment \/ ScaleDeployment
  \/ applyMachineControllerManagerShootChart
  \/ ListMachines
  \/ \E m \in Machines : TaskMark(m) \/ TaskAppendRead(m) \/ TaskAppendWrite(m)
  \/ Join
  \/ ListMachineDeployments
  \/ cleanupMachineDeployments \/ cleanupMachineClasses \/ cleanupMachineClassSecrets
  \/ waitUntilMachineResourcesDeleted
  \/ NewClientsForShoot \/ mcmShootChartDelete \/ mcmSeedChartDelete

\* Delete with its scheduling: the call keeps running, the timer of
\* context.WithTimeout fires and PollUntil wakes up on its closed stop
\* channel; the ticks, the external controller and the caller's cancellation
\* are under no obligation.
LiveSpec ==
  Init /\ [][Next]_vars /\ WF_vars(DeleteStep) /\ WF_vars(Deadline) /\ WF_vars(PollStop)

\* ------------------------------------------------------------------ Delete called again
\* The reconciler calls Delete again on the same Worker after a call that
\* returned an error: a new call with a new context on the cluster as it is.
\* ops starts over with the mark of a repeated call.
Retry ==
  /\ pc = "done" /\ result # Nil
  /\ \A i \in 1..Len(ops) : ops[i] # "Retry"
  /\ pc' = "WorkerDelegate"
  /\ result' = Running
  /\ ops' = <<"Retry">>
  /\ counts' = InitCounts
  /\ stopped' = "no"
  /\ lastTick' = NoTick
  /\ failedMarks' = {}
  /\ UNCHANGED <<mcmReplicas, charts, machines, store, deleting>>
  /\ UNCHANGED fanoutVars
  /\ UNCHANGED mutVars

\* A Worker whose controller is installed and whose machines exist.
RetryInit ==
  /\ Init
  /\ mcmReplicas = 0
  /\ charts = {"seed"}
  /\ \A m \in Machines : machines[m] = "plain"

RetryNext == Next \/ Retry

RetrySpec == RetryInit /\ [][RetryNext]_vars
\* The mutator on any one object; the Delete flow is not running.
MutateInit ==
  /\ pc = "WorkerDelegate"
  /\ ops = <<>>
  /\ result = Running
  /\ mcmReplicas = 1
  /\ charts = {"seed"}
  /\ machines = [m \in Machines |-> "plain"]
  /\ snap = [m \in Machines |-> "absent"]
  /\ tpc = [m \in Machines |-> "idle"]
  /\ tlocal = [m \in Machines |-> <<>>]
  /\ errorList = <<>>
  /\ updates = [m \in Machines |-> 0]
  /\ failedMarks = {}
  /\ store = [sets |-> 1, deployments |-> 1, classes |-> 1,
              secretsFin |-> 1, secretsNoFin |-> 0, failed |-> NoMachine]
  /\ deleting = {}
  /\ counts = InitCounts
  /\ stopped = "no"
  /\ lastTick = NoTick
  /\ mobj \in Objects
  /\ mbefore = mobj
  /\ mcalls = <<>>
  /\ merr = "none"
  /\ mcount = 0
  /\ mcloud = ""

MutateNext == Mutate

MutateSpec == MutateInit /\ [][MutateNext]_vars

\* ================================================================== claims
Range(q) == {q[i] : i \in 1..Len(q)}
Last(q) == q[Len(q)]
IsPrefix(q, full) == Len(q) <= Len(full) /\ \A i \in 1..Len(q) : q[i] = full[i]

\* The collaborator calls of Delete in the order of the source.
StageOrder ==
  <<"WorkerDelegate", "GetDeployment", "ScaleDeployment",
    "applyMachineControllerManagerShootChart", "ListMachines",
    "ListMachineDeployments", "cleanupMachineDeployments", "cleanupMachineClasses",
    "cleanupMachineClassSecrets", "waitUntilMachineResourcesDeleted",
    "NewClientsForShoot", "mcmShootChartDelete", "mcmSeedChartDelete">>

WaitWrap == "Failed while waiting for all machine resources to be deleted"
AfterWait == {"NewClientsForShoot", "mcmShootChartDelete", "mcmSeedChartDelete"}
Converged == pc \in AfterWait \/ (pc = "done" /\ "NewClientsForShoot" \in Range(ops))

\* C1: the calls Delete has issued are always an initial part of the fixed
\* stage order (delegate, get, scale, shoot chart, mark, list, the three
\* cascade deletes, wait, the three removal calls); the per-machine tasks run
\* only while the marking stage is the last one entered, the poll only while
\* the wait is; and once Delete has returned (with an error or nil) no
\* further step of any stage is taken.
C1_StagesInOrderState ==
  /\ IsPrefix(ops, StageOrder)
  /\ (pc = "fanout" \/ \E m \in Machines : tpc[m] # "idle") => Last(ops) = "ListMachines"
  /\ pc = "poll" => Last(ops) = "waitUntilMachineResourcesDeleted"
  /\ (pc = "done" /\ result # Nil) => Len(ops) >= 1 /\ result.cause # "running"
  /\ (pc = "done" /\ result = Nil) => ops = StageOrder
  /\ (pc # "done") => result = Running
C1_StagesInOrder == []C1_StagesInOrderState /\ [][pc # "done"]_vars
C1_Witness ==
  /\ pc = "done" /\ result.wrap = "cleaning up machine classes failed"
  /\ ops = SubSeq(StageOrder, 1, 8)
  /\ deleting = {"machine deployments"}

\* C2 (as claimed): when markAllMachinesForcefulDeletion returns its aggregate
\* error, the error lists every machine whose update failed, and every listed
\* machine whose update did not fail carries the label in the store.
C2_AllFailuresReported ==
  (pc = "done" /\ result.cause = "labelling machines (to become forcefully deleted) failed")
    => /\ \A m \in failedMarks : m \in Range(result.errs)
       /\ \A m \in Machines : (snap[m] # "absent" /\ m \notin failedMarks) => machines[m] = "marked"

\* C3 (as claimed): no two tasks are between the read of errorList and the
\* write of the appended slice at the same time.
C3_NoConcurrentAppend ==
  \A m1, m2 \in Machines : (tpc[m1] = "assign" /\ tpc[m2] = "assign") => m1 = m2

\* C4: once the labelling of a machine has failed in a Delete call, no cascade
\* delete is ever called or takes effect in that call, Delete gets no further
\* than the marking stage, and what it returns is an error.
C4_NoCascadeAfterLabelFailure ==
  failedMarks # {} =>
    /\ deleting = {}
    /\ Range(ops) \cap {"ListMachineDeployments", "cleanupMachineDeployments",
                        "cleanupMachineClasses", "cleanupMachineClassSecrets"} = {}
    /\ pc \in {"fanout", "done"}
    /\ pc = "done" => result # Nil /\ result.wrap = "marking all machines for forceful deletion failed"
C4_Witness ==
  /\ pc = "done" /\ failedMarks # {} /\ failedMarks # Machines
  /\ result.wrap = "marking all machines for forceful deletion failed"

\* C5: a finished markMachineForcefulDeletion on a machine listed with the
\* label has issued no Update, returned no error and left the machine
\* labelled; on a machine listed without it, it has issued exactly one Update,
\* after which the stored machine is labelled unless that Update failed.
TaskFinished(m) == pc \in {"fanout", "done"} /\ tpc[m] \in {"append", "assign", "done"}
C5_MarkIdempotent ==
  \A m \in Machines : TaskFinished(m) =>
    /\ snap[m] = "marked" => updates[m] = 0 /\ m \notin failedMarks /\ machines[m] = "marked"
    /\ snap[m] = "plain" => updates[m] = 1 /\ (m \in failedMarks \/ machines[m] = "marked")
C5_Witness ==
  \E m1, m2 \in Machines :
    /\ TaskFinished(m1) /\ snap[m1] = "marked" /\ updates[m1] = 0
    /\ TaskFinished(m2) /\ snap[m2] = "plain" /\ updates[m2] = 1 /\ machines[m2] = "marked"

\* C6: when an invocation of the condition function lists a MachineDeployment
\* that reports a failed machine, the wait has ended with it (no later
\* invocation), and Delete has returned the error carrying that machine's name
\* and description, whatever else is left in the store.
C6_FailedMachineIsFatal ==
  lastTick.seenFailed # NoMachine =>
    /\ pc = "done"
    /\ result.wrap = WaitWrap /\ result.cause = "Machine failed"
    /\ result.failed = lastTick.seenFailed
C6_Witness ==
  /\ pc = "done" /\ result.cause = "Machine failed"
  /\ result.failed = [name |-> "machine-b", desc |-> "quota exceeded"]
  /\ store.sets > 0 /\ store.classes > 0 /\ \E m \in Machines : machines[m] # "absent"

\* C7: the wait has returned nil only with all five recorded counts zero, and
\* while it is still polling the recorded counts are not all zero (a tick that
\* brings them all to zero ends the wait with nil).
C7_SuccessIffAllZero ==
  /\ Converged => \A k \in KindSet : counts[k] = 0
  /\ pc = "poll" => \E k \in KindSet : counts[k] # 0
  /\ (pc = "done" /\ result.wrap = WaitWrap) => ~ Converged
C7_Witness ==
  /\ pc = "NewClientsForShoot" /\ \A k \in KindSet : counts[k] = 0
  /\ stopped = "no"

\* C8: when the deadline has elapsed and the wait ended neither converged nor
\* on a failed machine nor on a failing list call, Delete returns the
\* wait.ErrWaitTimeout error; that error is returned only after the stop
\* channel closed and never for a tick that saw a failed machine, while a
\* failed machine is always reported with the "Machine failed" error.
C8_TimeoutError ==
  /\ (pc = "done" /\ Last(ops) = "waitUntilMachineResourcesDeleted" /\ stopped = "deadline"
        /\ lastTick.seenFailed = NoMachine /\ result.cause # "list error")
       => result = WaitError(ErrWaitTimeout, NoMachine)
  /\ (pc = "done" /\ result.cause = ErrWaitTimeout)
       => stopped # "no" /\ lastTick.seenFailed = NoMachine /\ result.wrap = WaitWrap
  /\ (pc = "done" /\ result.cause = "Machine failed") => lastTick.seenFailed # NoMachine
  /\ (stopped # "no" /\ Converged) => \A k \in KindSet : counts[k] = 0
C8_Witness ==
  /\ pc = "done" /\ stopped = "deadline" /\ result = WaitError(ErrWaitTimeout, NoMachine)
  /\ store.deployments > 0 /\ store.failed = NoMachine

\* C9 (as claimed): when the caller cancelled the context during the wait and
\* the wait returned an error of its own (not a list error, not a failed
\* machine), that error is not the deadline's timeout error.
C9_CancelIsNotTimeout ==
  (pc = "done" /\ stopped = "cancel" /\ result.wrap = WaitWrap
     /\ result.cause \notin {"list error", "Machine failed"})
    => result.cause # ErrWaitTimeout
\* The (kind, name) pairs Mutate knows; an OperatingSystemConfig is known
\* whatever its name.
KnownPairs ==
  {<<"Service", "kube-apiserver">>, <<"Deployment", "kube-apiserver">>,
   <<"Deployment", "kube-controller-manager">>, <<"Deployment", "kube-scheduler">>,
   <<"StatefulSet", "etcd-main">>, <<"StatefulSet", "etcd-events">>}
Known(o) == o.kind = "OperatingSystemConfig" \/ <<o.kind, o.name>> \in KnownPairs

\* C10: a Mutate call on an object whose (kind, name) is none of the known
\* pairs has called no Ensurer method and no cluster lookup, has left the
\* object as it was and has returned no error.
C10_UnmatchedIsNoOp ==
  (mcount > 0 /\ ~Known(mbefore)) => mcalls = <<>> /\ mobj = mbefore /\ merr = "nil"
C10_Witness ==
  /\ mcount > 0 /\ mbefore.kind = "Deployment" /\ mbefore.name = "etcd-main"
  /\ mcalls = <<>> /\ mobj = mbefore /\ merr = "nil"
\* The indices of the entries of a file list at the cloud provider config path.
CloudEntries(files) == {i \in 1..Len(files) : files[i].path = cloudProviderConfigPath}
\* The last Mutate call was on a reconcile-purpose OperatingSystemConfig,
\* provisioned the cloud provider config and returned no error.
CloudConfigEnsured ==
  /\ mcount >= 1 /\ merr = "nil"
  /\ mbefore.kind = "OperatingSystemConfig" /\ mbefore.purpose = "reconcile"
  /\ "EnsureKubeletCloudProviderConfig" \in Range(mcalls)

\* C11: after a successful Mutate call (the first or a repeated one) that
\* provisions the cloud provider config, the file list holds exactly one entry
\* at /var/lib/kubelet/cloudprovider.conf, with permissions 0644 and b64 inline
\* content that decodes to the text the hook last returned; the entry is
\* replaced in place when the list had one, appended when it had none, and no
\* other entry is added or removed.
C11_SingleCloudProviderFile ==
  CloudConfigEnsured =>
    /\ Cardinality(CloudEntries(mobj.files)) = 1
    /\ \A i \in CloudEntries(mobj.files) :
         /\ mobj.files[i].perm = "0644"
         /\ mobj.files[i].inline = Text("b64", TRUE, TRUE, {mcloud})
    /\ Len(mobj.files) = Len(mbefore.files) + (IF CloudEntries(mbefore.files) = {} THEN 1 ELSE 0)
    /\ CloudEntries(mbefore.files) \subseteq CloudEntries(mobj.files)
C11_Witness ==
  /\ CloudConfigEnsured /\ mcount = 2 /\ mcloud = "CONFIG-2"
  /\ \E i \in CloudEntries(mbefore.files) :
       /\ mbefore.files[i].inline = Text("b64", TRUE, TRUE, {"CONFIG"})
       /\ mobj.files[i].inline = Text("b64", TRUE, TRUE, {"CONFIG-2"})
  /\ Len(mobj.files) = Len(mbefore.files)
\* C12: for every reconcile-purpose OperatingSystemConfig and every behaviour
\* of the hooks and codecs that is the same in both calls, a second Mutate
\* call leaves the object exactly as the first call left it.
C12_MutateIdempotent ==
  (mobj.kind = "OperatingSystemConfig" /\ mobj.purpose = "reconcile") =>
    \A in \in MutateInputs :
      LET once == MutateObject(mobj, in)
          twice == MutateObject(once.obj, in)
      IN twice.obj = once.obj
C12_Witness ==
  /\ mcount = 2 /\ merr = "nil"
  /\ mobj.kind = "OperatingSystemConfig" /\ mobj.purpose = "reconcile"
  /\ mobj = mbefore
  /\ CloudEntries(mobj.files) # {}
  /\ \E i \in 1..Len(mobj.units) :
       mobj.units[i].name = "kubelet.service" /\ "provider" \in mobj.units[i].content.v
  /\ \E i \in 1..Len(mobj.files) :
       mobj.files[i].path = KubeletConfigPath /\ "provider" \in mobj.files[i].inline.v
  /\ \E i \in 1..Len(mobj.files) :
       mobj.files[i].path = SysctlConfigPath /\ "provider" \in mobj.files[i].inline.v
\* The causes of the errors a failing collaborator hands to Delete: a failing
\* call of the factory, the client, a chart or the store, a machine the
\* controller reports as failed, the deadline or the caller's cancellation.
CollaboratorFailures ==
  {"factory error", "get deployment error", "scale deployment error", "chart error",
   "list machines error", "labelling machines (to become forcefully deleted) failed",
   "list machine deployments error", "delete error", "list error", "Machine failed",
   "client error", ErrWaitTimeout}
Retried == Len(ops) >= 1 /\ ops[1] = "Retry"

\* C13 (as claimed): a Delete call made after a call that returned an error,
\* in which no collaborator fails, returns nil and leaves what a single
\* successful Delete leaves: both charts removed, every recorded count zero.
C13_RetrySucceeds ==
  (Retried /\ pc = "done" /\ result.cause \notin CollaboratorFailures)
    => result = Nil /\ charts = {} /\ AllZero(counts)
\* C14 (as claimed): every error Delete returns carries the context of the
\* stage that failed, whichever stage it was.
C14_EveryErrorWrapped ==
  (pc = "done" /\ result # Nil) => result.wrap # ""
FactoryError == Err("could not instantiate actuator context", "factory error")
\* C15: when the delegate factory returns an error, Delete returns it (wrapped)
\* in that very step, having called the factory once and nothing else: the
\* step leaves the Deployment, the charts, the machines and the machine
\* resources as they were, no Update and no delete was issued, no poll ran.
C15_FactoryErrorAbortsState ==
  (pc = "done" /\ result.cause = "factory error") =>
    /\ result = FactoryError
    /\ ops = <<"WorkerDelegate">>
    /\ \A m \in Machines : updates[m] = 0 /\ tpc[m] = "idle"
    /\ deleting = {} /\ counts = InitCounts /\ failedMarks = {}
C15_FactoryErrorAborts ==
  /\ []C15_FactoryErrorAbortsState
  /\ [][result'.cause = "factory error" =>
          /\ pc = "WorkerDelegate" /\ pc' = "done"
          /\ UNCHANGED <<mcmReplicas, charts, machines, store, deleting, updates>>]_vars
C15_Witness ==
  /\ pc = "done" /\ result = FactoryError /\ ops = <<"WorkerDelegate">>
  /\ \E m \in Machines : machines[m] = "plain"
CascadeStages == <<"cleanupMachineDeployments", "cleanupMachineClasses", "cleanupMachineClassSecrets">>
CascadeKinds == <<"machine deployments", "machine classes", "machine class secrets">>
CascadeWraps == <<"cleaning up machine deployments failed", "cleaning up machine classes failed",
                  "cleaning up machine class secrets failed">>
\* C16: the deletes of machine classes are issued only after those of the
\* machine deployments and the deletes of machine class secrets only after
\* those of the machine classes; a cascade stage that fails ends Delete with
\* the error that names this stage, and neither a later cascade stage nor the
\* wait has been started.
C16_CascadeOrder ==
  /\ \A i \in 2..3 : CascadeKinds[i] \in deleting => CascadeKinds[i - 1] \in deleting
  /\ \A i \in 1..3 : \A j \in 1..Len(ops) :
       ops[j] = CascadeStages[i] =>
         /\ j > 3
         /\ \A k \in 1..(i - 1) : ops[j - k] = CascadeStages[i - k]
         /\ ops[j - i] = "ListMachineDeployments"
  /\ (pc = "done" /\ result.cause = "delete error") =>
       \E i \in 1..3 :
         /\ Last(ops) = CascadeStages[i]
         /\ result = Err(CascadeWraps[i], "delete error")
         /\ \A k \in i..3 : CascadeKinds[k] \notin deleting
         /\ \A k \in 1..(i - 1) : CascadeKinds[k] \in deleting
         /\ counts = InitCounts
C16_Witness ==
  /\ pc = "done" /\ result = Err("cleaning up machine classes failed", "delete error")
  /\ deleting = {"machine deployments"}
  /\ Last(ops) = "cleanupMachineClasses"
\* C17: during one wait, a resource type whose recorded count is zero is not
\* listed by any later invocation of the condition function, whatever the
\* store holds by then, and its recorded count is still zero after every step
\* that does not end the wait with an error.
C17_ZeroNotListedState ==
  pc = "poll" =>
    \A k \in KindSet : counts[k] = 0 =>
      \A failAt \in 0..6 :
        LET r == PollCondition(counts, StoreView, failAt) IN
          k \notin r.listed /\ r.counts[k] = 0 /\ \A e \in Range(r.msg) : e[1] # k
C17_ZeroNotListed ==
  /\ []C17_ZeroNotListedState
  /\ [][\A k \in KindSet :
          (pc = "poll" /\ counts[k] = 0 /\ pc' # "done") => counts'[k] = 0]_vars
C17_Witness ==
  /\ pc = "poll" /\ counts["machines"] = 0 /\ StoreView.machines > 0
  /\ counts["machine sets"] = 0 /\ StoreView.sets > 0
  /\ counts["machine classes"] > 0
\* C18: an invocation of the condition function reports convergence exactly
\* when it ended without error with all five counts zero; the count it records
\* for the machine class secrets is the number of listed secrets that carry a
\* finalizer, so secrets without finalizers do not keep the wait open and one
\* secret with a finalizer does; and Delete is past the wait only with all
\* five counts zero.
C18_SecretsCountedByFinalizer ==
  /\ Converged => \A k \in KindSet : counts[k] = 0
  /\ pc = "poll" =>
       \A failAt \in 0..6 :
         LET r == PollCondition(counts, StoreView, failAt)
             secrets == "machine class secrets"
         IN /\ r.done <=> (r.err = "" /\ \A k \in KindSet : r.counts[k] = 0)
            /\ secrets \in r.listed => r.counts[secrets] = store.secretsFin
            /\ (secrets \in r.listed /\ store.secretsFin >= 1) => ~r.done
            /\ (r.err = "" /\ store.secretsFin = 0
                  /\ \A k \in KindSet \ {secrets} : r.counts[k] = 0) => r.done
C18_Witness ==
  /\ pc = "NewClientsForShoot" /\ store.secretsNoFin > 0 /\ store.secretsFin = 0
  /\ \A k \in KindSet : counts[k] = 0
\* C19 (as claimed): the summary logged by an invocation of the condition
\* function that does not converge has one entry for each resource type whose
\* count is non-zero and no entry for a type whose count is zero.
C19_SummaryOnlyNonZero ==
  pc = "poll" =>
    \A failAt \in 0..6 :
      LET r == PollCondition(counts, StoreView, failAt) IN
        r.logged =>
          /\ {e[1] : e \in Range(r.msg)} = {k \in KindSet : r.counts[k] # 0}
          /\ \A e \in Range(r.msg) : e[2] # 0 /\ e[2] = r.counts[e[1]]
ShootClientError ==
  Err("could not create shoot client for cleanup of machine-controller-manager resources",
      "client error")
ShootChartError == Err("cleaning up machine-controller-manager resources in shoot failed", "chart error")
SeedChartError == Err("cleaning up machine-controller-manager resources in seed failed", "chart error")
\* C20: the shoot client is built and the charts are deleted only after the
\* wait returned success (all counts zero); a Delete that ended with the error
\* of the wait has issued none of the three steps and removed no chart. After
\* a successful wait the steps run in the order shoot client, shoot chart
\* delete, seed chart delete, each only after the one before it succeeded, and
\* the error of a step ends Delete with that error.
C20_ChartsDeletedAfterWaitState ==
  /\ \A j \in 1..Len(ops) : ops[j] \in AfterWait =>
       /\ \A k \in KindSet : counts[k] = 0
       /\ j > 1
       /\ ops[j - 1] = CASE ops[j] = "NewClientsForShoot" -> "waitUntilMachineResourcesDeleted"
                         [] ops[j] = "mcmShootChartDelete" -> "NewClientsForShoot"
                         [] ops[j] = "mcmSeedChartDelete" -> "mcmShootChartDelete"
  /\ (pc = "done" /\ result.wrap = WaitWrap) =>
       /\ Last(ops) = "waitUntilMachineResourcesDeleted"
       /\ charts = {"seed", "shoot"}
  /\ "mcmSeedChartDelete" \in Range(ops) => "shoot" \notin charts
  /\ (pc = "done" /\ Last(ops) = "NewClientsForShoot") =>
       result = ShootClientError /\ charts = {"seed", "shoot"}
  /\ (pc = "done" /\ Last(ops) = "mcmShootChartDelete") => result = ShootChartError
  /\ (pc = "done" /\ Last(ops) = "mcmSeedChartDelete") => result \in {Nil, SeedChartError}
  /\ (pc = "done" /\ result = Nil) => charts = {}
C20_ChartsDeletedAfterWait ==
  /\ []C20_ChartsDeletedAfterWaitState
  /\ [][charts' # charts /\ charts' \subseteq charts =>
          /\ pc \in {"mcmShootChartDelete", "mcmSeedChartDelete"}
          /\ \A k \in KindSet : counts[k] = 0]_vars
C20_Witness ==
  /\ pc = "done" /\ result = SeedChartError /\ Last(ops) = "mcmSeedChartDelete"
  /\ charts = {"seed"}
C20_WitnessWaitFailed ==
  /\ pc = "done" /\ result.wrap = WaitWrap /\ result.cause = ErrWaitTimeout
  /\ charts = {"seed", "shoot"}
\* C21: a Mutate call on an OperatingSystemConfig whose purpose is not
\* "reconcile" calls no method of the Ensurer, not even
\* ShouldProvisionKubeletCloudProviderConfig, returns nil and leaves the
\* object, its units and files included, as it was.
C21_OtherPurposeIgnored ==
  (mcount >= 1 /\ mbefore.kind = "OperatingSystemConfig" /\ mbefore.purpose # "reconcile") =>
    /\ mcalls = <<>>
    /\ merr = "nil"
    /\ mobj.units = mbefore.units /\ mobj.files = mbefore.files
    /\ mobj = mbefore
C21_Witness ==
  /\ mcount >= 1 /\ mbefore.kind = "OperatingSystemConfig" /\ mbefore.purpose = "provision"
  /\ \E i \in 1..Len(mbefore.units) :
       mbefore.units[i].name = "kubelet.service" /\ ~mbefore.units[i].content.nil
         /\ mbefore.units[i].content.valid
  /\ \E i \in 1..Len(mbefore.files) : mbefore.files[i].path = KubeletConfigPath
  /\ mobj = mbefore /\ merr = "nil"
GetClusterError == "could not get cluster for namespace"
\* C22: a Mutate call on a StatefulSet named etcd-main or etcd-events looks
\* the cluster up first; EnsureETCDStatefulSet is called only after a lookup
\* that succeeded, and when the lookup fails Mutate returns its error with
\* the hook not called and the object as it was.
C22_ClusterLookupFirst ==
  (mcount >= 1 /\ mbefore.kind = "StatefulSet" /\ mbefore.name \in {"etcd-main", "etcd-events"}) =>
    /\ Len(mcalls) >= 1 /\ mcalls[1] = "GetCluster"
    /\ \A i \in 2..Len(mcalls) : mcalls[i] = "EnsureETCDStatefulSet"
    /\ Len(mcalls) <= 2
    /\ merr = GetClusterError => mcalls = <<"GetCluster">> /\ mobj = mbefore
    /\ Len(mcalls) = 2 => merr # GetClusterError
    /\ mobj # mbefore => mcalls = <<"GetCluster", "EnsureETCDStatefulSet">> /\ merr = "nil"
C22_Witness ==
  /\ mcount >= 1 /\ mbefore.kind = "StatefulSet" /\ mbefore.name = "etcd-events"
  /\ merr = GetClusterError /\ mcalls = <<"GetCluster">> /\ mobj = mbefore
ReconcileCall ==
  mcount >= 1 /\ mbefore.kind = "OperatingSystemConfig" /\ mbefore.purpose = "reconcile"
HookFailed(method) == merr = "hook error" /\ Len(mcalls) >= 1 /\ Last(mcalls) = method
UnitStepFailed ==
  \/ merr \in {"could not deserialize kubelet.service unit content",
               "could not serialize kubelet.service unit options"}
  \/ HookFailed("EnsureKubeletServiceUnitOptions")
KubeletStepFailed ==
  \/ merr \in {"could not decode kubelet configuration", "could not encode kubelet configuration"}
  \/ HookFailed("EnsureKubeletConfiguration")
SysctlStepFailed ==
  \/ merr \in {"could not decode kubernetes general configuration",
               "could not encode kubernetes general configuration"}
  \/ HookFailed("EnsureKubernetesGeneralConfiguration")
CloudStepFailed ==
  \/ merr = "could not encode kubelet cloud provider config"
  \/ HookFailed("EnsureKubeletCloudProviderConfig")
StepOrder ==
  <<"EnsureKubeletServiceUnitOptions", "EnsureKubeletConfiguration",
    "EnsureKubernetesGeneralConfiguration", "ShouldProvisionKubeletCloudProviderConfig",
    "EnsureKubeletCloudProviderConfig">>
\* The files of the given paths are the same in the object before and after.
FilesKept(paths) ==
  /\ Len(mobj.files) = Len(mbefore.files)
  /\ \A i \in 1..Len(mobj.files) :
       mbefore.files[i].path \in paths => mobj.files[i] = mbefore.files[i]

\* C23 (as claimed): the hooks of a reconcile OperatingSystemConfig are called
\* in the order unit, kubelet config, sysctl config, cloud provider config;
\* when a step fails no later hook is called, the payload of the failing step
\* and of every later step is as it was before the call.
C23_FailingStepLeavesPayload ==
  ReconcileCall =>
    /\ \A i, j \in 1..Len(mcalls) :
         i < j => \E a, b \in 1..Len(StepOrder) :
                    a < b /\ StepOrder[a] = mcalls[i] /\ StepOrder[b] = mcalls[j]
    /\ UnitStepFailed => mobj = mbefore
    /\ KubeletStepFailed =>
         mobj.files = mbefore.files /\ "EnsureKubernetesGeneralConfiguration" \notin Range(mcalls)
    /\ SysctlStepFailed =>
         /\ FilesKept({SysctlConfigPath, cloudProviderConfigPath})
         /\ "ShouldProvisionKubeletCloudProviderConfig" \notin Range(mcalls)
    /\ CloudStepFailed => FilesKept({cloudProviderConfigPath})
\* The Ensurer method fixed by the kind and the name of a workload object
\* ("" when there is none).
ExpectedHook(kind, name) ==
  CASE kind = "Service" /\ name = "kube-apiserver" -> "EnsureKubeAPIServerService"
    [] kind = "Deployment" /\ name = "kube-apiserver" -> "EnsureKubeAPIServerDeployment"
    [] kind = "Deployment" /\ name = "kube-controller-manager" ->
         "EnsureKubeControllerManagerDeployment"
    [] kind = "Deployment" /\ name = "kube-scheduler" -> "EnsureKubeSchedulerDeployment"
    [] kind = "StatefulSet" /\ name \in {"etcd-main", "etcd-events"} -> "EnsureETCDStatefulSet"
    [] OTHER -> ""
EnsurerCalls == SelectSeq(mcalls, LAMBDA c : c # "GetCluster")

\* C24: a Mutate call on a Service, Deployment or StatefulSet calls at most
\* one Ensurer method, once, and only the one fixed by the kind and name of
\* the object; the object handed in is still that object afterwards, changed
\* only by the hook, and Mutate returns what the hook returned.
C24_OneHookByKindAndName ==
  (mcount >= 1 /\ mbefore.kind \in {"Service", "Deployment", "StatefulSet"}) =>
    /\ Len(EnsurerCalls) <= 1
    /\ \A i \in 1..Len(EnsurerCalls) :
         EnsurerCalls[i] = ExpectedHook(mbefore.kind, mbefore.name)
    /\ (ExpectedHook(mbefore.kind, mbefore.name) # "" /\ merr # GetClusterError)
         => Len(EnsurerCalls) = 1
    /\ mobj.kind = mbefore.kind /\ mobj.name = mbefore.name
    /\ Len(EnsurerCalls) = 1 =>
         /\ merr \in {"nil", "hook error"}
         /\ merr = "nil" => mobj = [mbefore EXCEPT !.spec = "ensured"]
         /\ merr = "hook error" => mobj = mbefore
    /\ Len(EnsurerCalls) = 0 => mobj = mbefore
C24_Witness ==
  /\ mcount >= 1 /\ mbefore = Workload("Deployment", "kube-controller-manager")
  /\ mcalls = <<"EnsureKubeControllerManagerDeployment">> /\ merr = "nil"
  /\ mobj.spec = "ensured"
BeforeWait ==
  {"ListMachineDeployments", "cleanupMachineDeployments", "cleanupMachineClasses",
   "cleanupMachineClassSecrets", "waitUntilMachineResourcesDeleted"}
\* C25: markAllMachinesForcefulDeletion returns only when every task it
\* started has finished, and after it returned nil every machine it listed
\* carries the force-deletion label in the store, labelled by its task or
\* found labelled.
C25_AllMarkedOnNilState ==
  /\ pc = "ListMachineDeployments" =>
       \A m \in Machines :
         /\ tpc[m] \in {"idle", "done"}
         /\ snap[m] # "absent" => tpc[m] = "done" /\ machines[m] = "marked"
         /\ snap[m] = "plain" => updates[m] = 1
  /\ pc \in BeforeWait => \A m \in Machines : machines[m] \in {"absent", "marked"}
  /\ pc \in BeforeWait => errorList = <<>> /\ failedMarks = {}
C25_AllMarkedOnNil ==
  /\ []C25_AllMarkedOnNilState
  /\ [][(pc = "fanout" /\ pc' # "fanout") =>
          \A m \in Machines : tpc[m] \in {"idle", "done"}]_vars
C25_Witness ==
  /\ pc = "ListMachineDeployments"
  /\ \A m \in Machines : snap[m] = "plain" /\ machines[m] = "marked" /\ updates[m] = 1
\* C26: every Delete call returns: with every collaborator call returning
\* and the 30-minute timer running, the wait ends, whatever the external
\* controller does or fails to do.
C26_DeleteReturns == <>(pc = "done")
C26_Witness ==
  /\ pc = "done" /\ result = WaitError(ErrWaitTimeout, NoMachine)
  /\ \A f \in {"sets", "deployments", "classes", "secretsFin"} : store[f] = 1
  /\ \A m \in Machines : machines[m] = "marked"
  /\ stopped = "deadline"
StoreEmpty ==
  /\ \A m \in Machines : machines[m] = "absent"
  /\ store.sets = 0 /\ store.deployments = 0 /\ store.classes = 0 /\ store.secretsFin = 0

\* C27 (as claimed): once the wait has returned nil, and for as long as Delete
\* goes on to remove the controller, the store holds no machine, machine set,
\* machine deployment, machine class or machine class secret with a
\* finalizer, whatever the external actor did during the wait.
C27_StoreEmptyOnSuccess == Converged => StoreEmpty
====
